---- MODULE Spec2Model ----
(***************************************************************************)
(* Englajimmy RSVP backend: the schema reconciler (ensure_rsvps_table),    *)
(* the transaction scope (get_conn / get_db), the API-key gate             *)
(* (require_api_key) and the two request handlers (create_rsvp,            *)
(* list_rsvps) over one PostgreSQL table, rsvps.                           *)
(*                                                                         *)
(* The database is modelled by what the statements of src/main.py do to    *)
(* it: a committed state (db), the uncommitted work of the startup         *)
(* transaction (tx) and of each request's transaction (pending), and the   *)
(* non-transactional id sequence (seq).  Operation 0 is the startup run of *)
(* ensure_rsvps_table; operations 1..NReq are HTTP requests.               *)
(***************************************************************************)
EXTENDS Integers, Sequences, FiniteSets, TLC

\* ------------------------------------------------------------------ bounds
\* Number of HTTP requests the service receives (they may all overlap).
NReq == 3

Reqs == 1 .. NReq
Startup == 0
Ops == {Startup} \cup Reqs

\* ------------------------------------------------------- names and values
NULL == "<NULL>"
NoKey == "<None>"

RSVPS_TABLE == "rsvps"

RSVP_COLUMNS ==
    {"id", "name", "email", "coming", "allergies", "transport_assist", "created_at"}

\* Constraint names PostgreSQL gives: the primary key, UNIQUE (name, email)
\* and the earlier revision's UNIQUE (email).
PKEY == "rsvps_pkey"
NAME_EMAIL_KEY == "rsvps_name_email_key"
EMAIL_KEY == "rsvps_email_key"

\* The columns each constraint is over.
ConColumns(c) ==
    CASE c = PKEY -> {"id"}
      [] c = NAME_EMAIL_KEY -> {"name", "email"}
      [] c = EMAIL_KEY -> {"email"}

\* The table created by CREATE_RSVPS_SQL: all seven columns, the primary key
\* and the inline UNIQUE (name, email), no rows.
CREATE_RSVPS_SQL ==
    [exists |-> TRUE,
     columns |-> RSVP_COLUMNS,
     constraints |-> {PKEY, NAME_EMAIL_KEY},
     rows |-> {}]

NoTable == [exists |-> FALSE, columns |-> {}, constraints |-> {}, rows |-> {}]

\* ---------------------------------------------------------- SQL semantics
\* Two distinct rows of t agree on every column of cols.
HasDuplicate(t, cols) ==
    \E r1 \in t.rows : \E r2 \in t.rows :
        r1 # r2 /\ \A c \in cols : r1[c] = r2[c]

\* CREATE TABLE IF NOT EXISTS rsvps (...): skipped when the table exists.
CreateTableIfNotExists(t) == IF t.exists THEN t ELSE CREATE_RSVPS_SQL

\* Mutant of RenameColumn: the old column is dropped and the new one added with
\* its default, so the data is lost.
RenameColumnAsDropAdd(t, from, to) ==
    LET cols == (t.columns \ {from}) \cup {to}
    IN  [t EXCEPT !.columns = cols,
                  !.rows = {[c \in cols |-> IF c = to THEN TRUE ELSE r[c]] : r \in t.rows}]

\* ALTER TABLE rsvps RENAME COLUMN from TO to: the data stays, under the new name.
RenameColumn(t, from, to) ==
    LET cols == (t.columns \ {from}) \cup {to}
    IN  [t EXCEPT !.columns = cols,
                  !.rows = {[c \in cols |-> IF c = to THEN r[from] ELSE r[c]] : r \in t.rows}]

\* ALTER TABLE rsvps DROP COLUMN IF EXISTS col: the column, its data and every
\* constraint over it go.
DropColumnIfExists(t, col) ==
    LET cols == t.columns \ {col}
    IN  [t EXCEPT !.columns = cols,
                  !.constraints = {k \in t.constraints : col \notin ConColumns(k)},
                  !.rows = {[c \in cols |-> r[c]] : r \in t.rows}]

\* ALTER TABLE rsvps ADD COLUMN IF NOT EXISTS col ... [DEFAULT dflt]: existing
\* rows get the default (NULL without one).
AddColumnIfNotExists(t, col, dflt) ==
    IF col \in t.columns THEN t
    ELSE LET cols == t.columns \cup {col}
         IN  [t EXCEPT !.columns = cols,
                       !.rows = {[c \in cols |-> IF c = col THEN dflt ELSE r[c]] : r \in t.rows}]

\* ALTER TABLE rsvps DROP CONSTRAINT name.
DropConstraint(t, name) == [t EXCEPT !.constraints = t.constraints \ {name}]

\* ALTER TABLE rsvps ADD CONSTRAINT name UNIQUE (cols) raises when a column is
\* missing or the existing rows already hold a duplicate.
CanAddUnique(t, name) ==
    /\ ConColumns(name) \subseteq t.columns
    /\ ~HasDuplicate(t, ConColumns(name))

AddUnique(t, name) == [t EXCEPT !.constraints = t.constraints \cup {name}]

\* ------------------------------------------------------------------ state
VARIABLES
    API_KEY,           \* main.py:26, the configured shared secret (NoKey: unset)
    inputs,            \* the request bodies the clients of this deployment send
    fastapi,           \* the installed FastAPI: when it runs get_db's exit code
    db,                \* the committed table: exists, columns, constraints, rows
    seq,               \* last value handed out by the SERIAL sequence of id
    clock,             \* the database server's clock
    pc,                \* each operation's position
    conn,              \* each operation's connection: none, open, closed
    calls,             \* what get_conn called on the connection at exit, in order
    raised,            \* whether the operation's body raised inside get_conn
    tx,                \* the table as the startup transaction sees it
    existing_columns,  \* ensure_rsvps_table's snapshot of the column names
    ddl,               \* DDL statements the current run of ensure_rsvps_table issued
    run,               \* 1: first run of ensure_rsvps_table, 2: the run after a restart
    first,             \* how the first run ended, once the second has begun
    db0,               \* the committed table when the current run began
    db1,               \* the committed table when the first run had ended
    api_key,           \* require_api_key's parameter: the X-API-Key header presented
    req,               \* each request: kind and body
    now,               \* now() of each request's transaction: its start time
    pending,           \* each request's uncommitted write (at most one)
    result,            \* create_rsvp's return value
    listed,            \* list_rsvps's return value
    outcomes,          \* per (name, email): the results of the submits that committed
    response           \* each request's HTTP status, once it is decided ("none" before)

config == <<API_KEY, inputs, fastapi>>
schemaVars == <<tx, existing_columns, ddl>>
runVars == <<run, first, db0, db1>>
reqVars == <<api_key, req, now, pending, result, listed, outcomes, response>>
vars == <<API_KEY, inputs, fastapi, db, seq, clock, pc, conn, calls, raised, tx,
          existing_columns, ddl, run, first, db0, db1, api_key, req, now, pending, result,
          listed, outcomes, response>>

\* ------------------------------------------------- prior states of the table
\* Rows a table of an earlier revision may hold.  attending/coming,
\* message, allergies and transport_assist are filled in for the columns the
\* table has.
Seed(id, name, email, flag) == [id |-> id, name |-> name, email |-> email, flag |-> flag]

SeedSets ==
    { {},
      {Seed(1, "Ann", "ann@x.com", TRUE)},
      {Seed(1, "Ann", "ann@x.com", TRUE), Seed(2, "Ann", "bob@x.com", FALSE)},
      {Seed(1, "Ann", "ann@x.com", TRUE), Seed(2, "Bob", "ann@x.com", FALSE)},
      {Seed(1, "Ann", "ann@x.com", FALSE), Seed(2, "Ann", "ann@x.com", TRUE)} }

LegacyRow(s, cols) ==
    [c \in cols |->
        CASE c = "id" -> s.id
          [] c = "name" -> s.name
          [] c = "email" -> s.email
          [] c = "created_at" -> 0
          [] c = "attending" -> s.flag
          [] c = "coming" -> IF "attending" \in cols THEN ~s.flag ELSE s.flag
          [] c = "message" -> "see you there"
          [] c = "allergies" -> IF s.flag THEN "nuts" ELSE NULL
          [] c = "transport_assist" -> s.flag]

LegacyTable(cols, cons, seeds) ==
    [exists |-> TRUE, columns |-> cols, constraints |-> cons,
     rows |-> {LegacyRow(s, cols) : s \in seeds}]

BaseColumns == {"id", "name", "email", "created_at"}
OptionalColumns == {"attending", "coming", "message", "allergies", "transport_assist"}

\* Every table the service may find at start: none, or one with any subset of
\* the optional columns and of the two uniqueness constraints, holding rows the
\* constraints it has allow.
PriorTables ==
    {NoTable} \cup
    { t \in { LegacyTable(BaseColumns \cup oc, {PKEY} \cup uc, ss) :
                oc \in SUBSET OptionalColumns,
                uc \in SUBSET {EMAIL_KEY, NAME_EMAIL_KEY},
                ss \in SeedSets } :
        \A k \in t.constraints : ~HasDuplicate(t, ConColumns(k)) }

\* The prior states section 4.1 of the specification lists: the table absent, or
\* a table with the fixed columns, exactly one of attending and coming, and any
\* combination of the other legacy traits.
ListedPrior(t) ==
    \/ ~t.exists
    \/ /\ t.exists
       /\ BaseColumns \subseteq t.columns
       /\ ("attending" \in t.columns) # ("coming" \in t.columns)

MaxId(t) == IF t.rows = {} THEN 0 ELSE CHOOSE n \in {r["id"] : r \in t.rows} : \A r \in t.rows : r["id"] <= n

\* ----------------------------------------------------------------- inputs
\* Inputs the requests are drawn from.
Secrets == {NoKey, "", "s3cret"}
PresentedKeys == {NoKey, "", "s3cret", "S3CRET"}
Keys == {<<"Ann", "ann@x.com">>, <<"Ann", "bob@x.com">>, <<"Bob", "ann@x.com">>}

Payload(coming, allergies, transport_assist) ==
    [coming |-> coming, allergies |-> allergies, transport_assist |-> transport_assist]

Payloads == {Payload(TRUE, NULL, FALSE), Payload(FALSE, "nuts", TRUE)}

\* RsvpCreate: the validated body of POST /rsvps.
RsvpCreate(name, email, p) ==
    [name |-> name, email |-> email, coming |-> p.coming, allergies |-> p.allergies,
     transport_assist |-> p.transport_assist]

Bodies == {RsvpCreate(k[1], k[2], p) : k \in Keys, p \in Payloads}

NoBody == [name |-> "", email |-> "", coming |-> TRUE, allergies |-> NULL,
           transport_assist |-> FALSE]

\* The characters of the names in use.
Chars(name) ==
    CASE name = "Ann" -> <<"A", "n", "n">>
      [] name = "Bob" -> <<"B", "o", "b">>
      [] name = " Ann" -> <<" ", "A", "n", "n">>
      [] name = "Ann " -> <<"A", "n", "n", " ">>
      [] name = "  " -> <<" ", " ">>
      [] name = "" -> <<>>

\* name: str = Field(..., min_length=1, max_length=255)
MinNameLen == 1
MaxNameLen == 255

\* What RsvpCreate accepts: a name of 1 to 255 characters, counted as they
\* come (no str_strip_whitespace is configured).  The emails drawn are valid.
RsvpCreateAccepts(b) ==
    /\ Len(Chars(b.name)) >= MinNameLen
    /\ Len(Chars(b.name)) <= MaxNameLen

\* Bodies whose names carry surrounding whitespace, consist of it, or are empty.
RawNames == {"Ann", " Ann", "Ann ", "  ", ""}
RawBodies == {RsvpCreate(n, "ann@x.com", Payload(TRUE, NULL, FALSE)) : n \in RawNames}

\* The installed FastAPI runs the exit code of a dependency with yield (get_db:
\* the commit) before it sends the response (0.106 to 0.117) or after it has
\* sent it (before 0.106, from 0.118).
Builds == {"exit_before_response", "exit_after_response"}

NoResult == [status |-> "", message |-> ""]

KeyOf(b) == <<b.name, b.email>>

\* ------------------------------------------------------- get_conn (scope)
\* Mutant of get_conn: close is not in a finally block and is skipped when the
\* body or the commit raised.
get_conn_close_on_success_only(body_raised, commit_raises) ==
    IF body_raised THEN <<"rollback">>
    ELSE IF commit_raises THEN <<"commit", "rollback">>
    ELSE <<"commit", "close">>

\* Mutant of get_conn: the commit is in the finally block and runs after a body
\* that raised.
get_conn_commit_always(body_raised, commit_raises) ==
    IF commit_raises THEN <<"commit", "rollback", "close">>
    ELSE <<"commit", "close">>

\* The calls get_conn makes on the connection once its body is over:
\* conn.commit() after a body that completed, conn.rollback() in the except
\* branch (the body raised, or conn.commit() did), conn.close() in finally.
get_conn(body_raised, commit_raises) ==
    IF body_raised THEN <<"rollback", "close">>
    ELSE IF commit_raises THEN <<"commit", "rollback", "close">>
    ELSE <<"commit", "close">>

\* The uncommitted work of operation o applied to the committed table.
ApplyWrites(t, ws) ==
    [t EXCEPT !.rows =
        {r \in t.rows : \A w \in ws : w.row["id"] # r["id"]} \cup {w.row : w \in ws}]

Work(o) == IF o = Startup THEN tx ELSE ApplyWrites(db, pending[o])

\* What a sequence of calls does to st = [db, live, conn]: live says the
\* transaction still holds uncommitted work.  A commit that raises commits
\* nothing; rollback and close both discard the uncommitted work.
RECURSIVE RunCalls(_, _, _, _)
RunCalls(cs, st, o, commit_raises) ==
    IF cs = <<>> THEN st
    ELSE LET c == Head(cs)
             nx == CASE c = "commit" ->
                          IF commit_raises \/ ~st.live THEN st
                          ELSE [st EXCEPT !.db = Work(o), !.live = FALSE]
                     [] c = "rollback" -> [st EXCEPT !.live = FALSE]
                     [] c = "close" -> [st EXCEPT !.live = FALSE, !.conn = "closed"]
         IN  RunCalls(Tail(cs), nx, o, commit_raises)

\* psycopg2.connect succeeds: the body starts with the connection open.
BodyStart(o) ==
    IF o = Startup THEN "create"
    ELSE IF req[o].kind = "submit" THEN "body" ELSE "select"

Connect(o) ==
    /\ pc[o] = "connect"
    /\ conn' = [conn EXCEPT ![o] = "open"]
    /\ pc' = [pc EXCEPT ![o] = BodyStart(o)]
    /\ tx' = IF o = Startup THEN db ELSE tx
    /\ UNCHANGED <<config, db, seq, clock, calls, raised, existing_columns, ddl>>
    /\ UNCHANGED <<runVars, reqVars>>

\* psycopg2.connect raises (unreachable within CONNECT_TIMEOUT_SECONDS): no
\* connection was acquired and get_conn's try block is never entered.
ConnectFails(o) ==
    /\ pc[o] = "connect"
    /\ pc' = [pc EXCEPT ![o] = "failed"]
    /\ response' = IF o \in Reqs THEN [response EXCEPT ![o] = "500"] ELSE response
    /\ UNCHANGED <<config, db, seq, clock, conn, calls, raised>>
    /\ UNCHANGED <<schemaVars, runVars, api_key, req, now, pending, result, listed, outcomes>>

\* status_code of the route: 201 for POST /rsvps, 200 (the default) otherwise.
SuccessStatus(r) == IF req[r].kind = "submit" THEN "201" ELSE "200"

\* The exit of get_conn, from its yield to the end of finally.  An installed
\* FastAPI that sends the response before it runs the exit code of get_db does
\* so first (Respond); otherwise the response follows the exit: the route's
\* status after a commit, 500 after a commit that raised.  A status an
\* exception has already decided stays.
Exit(o, commit_raises) ==
    /\ pc[o] = "exit"
    /\ (o \in Reqs /\ fastapi = "exit_after_response" /\ raised[o] = "no") =>
            response[o] # "none"
    /\ LET body_raised == raised[o] # "no"
           cs == get_conn(body_raised, commit_raises)
           st == RunCalls(cs, [db |-> db, live |-> TRUE, conn |-> conn[o]], o, commit_raises)
           ok == ~body_raised /\ ~commit_raises
       IN  /\ calls' = [calls EXCEPT ![o] = cs]
           /\ db' = st.db
           /\ conn' = [conn EXCEPT ![o] = st.conn]
           /\ pending' = IF o \in Reqs /\ ~st.live
                         THEN [pending EXCEPT ![o] = {}] ELSE pending
           /\ tx' = IF o = Startup THEN st.db ELSE tx
           /\ raised' = [raised EXCEPT ![o] = IF commit_raises /\ ~body_raised
                                              THEN "commit" ELSE @]
           /\ pc' = [pc EXCEPT ![o] = IF ok THEN "done" ELSE "failed"]
           /\ outcomes' = IF o \in Reqs /\ ok /\ req[o].kind = "submit"
                          THEN [outcomes EXCEPT ![KeyOf(req[o].body)] =
                                    Append(@, result[o].message)]
                          ELSE outcomes
    /\ IF o \in Reqs
       THEN /\ req' = [req EXCEPT ![o].body = NoBody]
            /\ now' = [now EXCEPT ![o] = 0]
            /\ result' = [result EXCEPT ![o] = NoResult]
            /\ listed' = [listed EXCEPT ![o] = <<>>]
            /\ response' = [response EXCEPT ![o] =
                                IF @ # "none" THEN @
                                ELSE IF raised[o] = "no" /\ ~commit_raises
                                     THEN SuccessStatus(o) ELSE "500"]
       ELSE UNCHANGED <<req, now, result, listed, response>>
    /\ UNCHANGED <<config, seq, clock, existing_columns, ddl>>
    /\ UNCHANGED <<runVars, api_key>>

\* The body is over and conn.commit() succeeds, or the body raised.
ExitScope(o) == Exit(o, FALSE)

\* The body completed and conn.commit() raises.
CommitFails(o) == raised[o] = "no" /\ Exit(o, TRUE)

\* ------------------------------------------------------ ensure_rsvps_table
Issue(stmt) == ddl' = Append(ddl, stmt)

StartupStep(from, to) ==
    /\ pc[Startup] = from
    /\ pc' = [pc EXCEPT ![Startup] = to]
    /\ UNCHANGED <<config, db, seq, clock, conn, calls, raised>>
    /\ UNCHANGED <<runVars, reqVars>>

\* cur.execute(CREATE_RSVPS_SQL)
CreateTable ==
    /\ StartupStep("create", "read_columns")
    /\ tx' = CreateTableIfNotExists(tx)
    /\ Issue("CREATE TABLE IF NOT EXISTS")
    /\ UNCHANGED existing_columns

\* existing_columns = {row[0] for row in cur.fetchall()}
ReadColumns ==
    /\ StartupStep("read_columns", "rename")
    /\ existing_columns' = tx.columns
    /\ UNCHANGED <<tx, ddl>>

\* Migrate: rename attending -> coming if needed
RenameAttending ==
    /\ StartupStep("rename", "drop_message")
    /\ IF "attending" \in existing_columns /\ "coming" \notin existing_columns
       THEN tx' = RenameColumn(tx, "attending", "coming")
            /\ Issue("ALTER TABLE RENAME COLUMN attending TO coming")
       ELSE UNCHANGED <<tx, ddl>>
    /\ UNCHANGED existing_columns

\* Migrate: drop old message column if it exists
DropMessage ==
    /\ StartupStep("drop_message", "add_allergies")
    /\ IF "message" \in existing_columns
       THEN tx' = DropColumnIfExists(tx, "message")
            /\ Issue("ALTER TABLE DROP COLUMN IF EXISTS message")
       ELSE UNCHANGED <<tx, ddl>>
    /\ UNCHANGED existing_columns

\* Mutant of AddAllergies: the ALTER is issued without looking at existing_columns.
AddAllergiesUnconditional ==
    /\ StartupStep("add_allergies", "add_transport_assist")
    /\ tx' = AddColumnIfNotExists(tx, "allergies", NULL)
    /\ Issue("ALTER TABLE ADD COLUMN IF NOT EXISTS allergies")
    /\ UNCHANGED existing_columns

\* Migrate: add allergies if it does not exist
AddAllergies ==
    /\ StartupStep("add_allergies", "add_transport_assist")
    /\ IF "allergies" \notin existing_columns
       THEN tx' = AddColumnIfNotExists(tx, "allergies", NULL)
            /\ Issue("ALTER TABLE ADD COLUMN IF NOT EXISTS allergies")
       ELSE UNCHANGED <<tx, ddl>>
    /\ UNCHANGED existing_columns

\* Migrate: add transport_assist if it does not exist
AddTransportAssist ==
    /\ StartupStep("add_transport_assist", "drop_email_key")
    /\ IF "transport_assist" \notin existing_columns
       THEN tx' = AddColumnIfNotExists(tx, "transport_assist", FALSE)
            /\ Issue("ALTER TABLE ADD COLUMN IF NOT EXISTS transport_assist")
       ELSE UNCHANGED <<tx, ddl>>
    /\ UNCHANGED existing_columns

\* Mutant of DropEmailKey: the email-only constraint is never dropped.
DropEmailKeySkipped ==
    /\ StartupStep("drop_email_key", "add_name_email_key")
    /\ UNCHANGED <<tx, ddl, existing_columns>>

\* Remove old email-only unique constraint if it exists
DropEmailKey ==
    /\ StartupStep("drop_email_key", "add_name_email_key")
    /\ IF EMAIL_KEY \in tx.constraints
       THEN tx' = DropConstraint(tx, EMAIL_KEY)
            /\ Issue("ALTER TABLE DROP CONSTRAINT rsvps_email_key")
       ELSE UNCHANGED <<tx, ddl>>
    /\ UNCHANGED existing_columns

\* Ensure one RSVP per (name, email): add the unique constraint if not present.
\* The ALTER raises when the rows already hold a duplicate (name, email).
AddNameEmailKey ==
    /\ pc[Startup] = "add_name_email_key"
    /\ pc' = [pc EXCEPT ![Startup] = "exit"]
    /\ IF NAME_EMAIL_KEY \notin tx.constraints
       THEN /\ Issue("ALTER TABLE ADD CONSTRAINT rsvps_name_email_key")
            /\ IF CanAddUnique(tx, NAME_EMAIL_KEY)
               THEN tx' = AddUnique(tx, NAME_EMAIL_KEY) /\ UNCHANGED raised
               ELSE raised' = [raised EXCEPT ![Startup] = "body"] /\ UNCHANGED tx
       ELSE UNCHANGED <<tx, ddl, raised>>
    /\ UNCHANGED <<config, db, seq, clock, conn, calls, existing_columns>>
    /\ UNCHANGED <<runVars, reqVars>>

StartupStatements ==
    {"create", "read_columns", "rename", "drop_message", "add_allergies",
     "add_transport_assist", "drop_email_key", "add_name_email_key"}

\* Any statement of ensure_rsvps_table may raise (the server went away): the
\* exception leaves the with blocks.
StatementRaises ==
    /\ pc[Startup] \in StartupStatements
    /\ pc' = [pc EXCEPT ![Startup] = "exit"]
    /\ raised' = [raised EXCEPT ![Startup] = "body"]
    /\ UNCHANGED <<config, db, seq, clock, conn, calls>>
    /\ UNCHANGED <<schemaVars, runVars, reqVars>>

ensure_rsvps_table ==
    \/ Connect(Startup)
    \/ ConnectFails(Startup)
    \/ CreateTable
    \/ ReadColumns
    \/ RenameAttending
    \/ DropMessage
    \/ AddAllergies
    \/ AddTransportAssist
    \/ DropEmailKey
    \/ AddNameEmailKey
    \/ StatementRaises
    \/ ExitScope(Startup)
    \/ CommitFails(Startup)

\* The process is started again: ensure_rsvps_table runs a second time.
Restart ==
    /\ run = 1
    /\ pc[Startup] \in {"done", "failed"}
    /\ run' = 2
    /\ first' = pc[Startup]
    /\ db0' = db
    /\ db1' = db
    /\ pc' = [pc EXCEPT ![Startup] = "connect"]
    /\ conn' = [conn EXCEPT ![Startup] = "none"]
    /\ calls' = [calls EXCEPT ![Startup] = <<>>]
    /\ raised' = [raised EXCEPT ![Startup] = "no"]
    /\ ddl' = <<>>
    /\ existing_columns' = {}
    /\ tx' = db
    /\ UNCHANGED <<config, db, seq, clock, reqVars>>

\* ------------------------------------------------------------------- Init
InitWith(tables, secrets, bodies, builds) ==
    /\ API_KEY \in secrets
    /\ inputs = bodies
    /\ fastapi \in builds
    /\ db \in tables
    /\ seq = MaxId(db)
    /\ clock = 1
    /\ pc = [o \in Ops |-> IF o = Startup THEN "connect" ELSE "idle"]
    /\ conn = [o \in Ops |-> "none"]
    /\ calls = [o \in Ops |-> <<>>]
    /\ raised = [o \in Ops |-> "no"]
    /\ tx = db
    /\ existing_columns = {}
    /\ ddl = <<>>
    /\ run = 1
    /\ first = "none"
    /\ db0 = db
    /\ db1 = db
    /\ api_key = [r \in Reqs |-> NoKey]
    /\ req = [r \in Reqs |-> [kind |-> "none", body |-> NoBody]]
    /\ now = [r \in Reqs |-> 0]
    /\ pending = [r \in Reqs |-> {}]
    /\ result = [r \in Reqs |-> NoResult]
    /\ listed = [r \in Reqs |-> <<>>]
    /\ outcomes = [k \in {KeyOf(b) : b \in bodies} |-> <<>>]
    /\ response = [r \in Reqs |-> "none"]

\* The reconciler alone, from every prior table, run twice.
InitMig == InitWith(PriorTables, {NoKey}, Bodies, {"exit_before_response"})
NextMig == ensure_rsvps_table \/ Restart
SpecMig == InitMig /\ [][NextMig]_vars

\* ---------------------------------------------------------------- requests
\* require_api_key: TRUE when it returns, FALSE when it raises HTTPException(401).
\* "not API_KEY" holds for an unset and for an empty secret, "not api_key" for
\* an absent and for an empty header.
Falsy(k) == k = NoKey \/ k = ""

\* Mutant of require_api_key: only a key that is present and wrong is refused.
require_api_key_lenient(k) ==
    IF Falsy(API_KEY) THEN TRUE
    ELSE Falsy(k) \/ k = API_KEY

require_api_key(k) ==
    IF Falsy(API_KEY) THEN TRUE
    ELSE ~(Falsy(k) \/ k # API_KEY)

\* RsvpSubmitResponse has the fields status and message only: the keyword
\* updated that create_rsvp passes is not a field of the model and is dropped.
RsvpSubmitResponse(status, message, updated) == [status |-> status, message |-> message]

CreatedMessage == "RSVP submitted successfully."
UpdatedMessage == "RSVP updated successfully."

\* Mutant of Arrive: requests are accepted while ensure_rsvps_table is still
\* running or after it failed.
ArriveBeforeStartup(r) ==
    /\ pc[r] = "idle"
    /\ \A q \in Reqs : q < r => pc[q] # "idle"
    /\ \E k \in PresentedKeys : api_key' = [api_key EXCEPT ![r] = k]
    /\ \E kind \in {"list", "submit"} : req' = [req EXCEPT ![r].kind = kind]
    /\ pc' = [pc EXCEPT ![r] = "auth"]
    /\ UNCHANGED <<config, db, seq, clock, conn, calls, raised>>
    /\ UNCHANGED <<schemaVars, runVars, now, pending, result, listed, outcomes, response>>

\* A request arrives once the lifespan's startup has completed: the route
\* (GET or POST /rsvps) and the X-API-Key header.  Requests are numbered in the
\* order they arrive.
Arrive(r) ==
    /\ pc[Startup] = "done"
    /\ pc[r] = "idle"
    /\ \A q \in Reqs : q < r => pc[q] # "idle"
    /\ \E k \in PresentedKeys : api_key' = [api_key EXCEPT ![r] = k]
    /\ \E kind \in {"list", "submit"} : req' = [req EXCEPT ![r].kind = kind]
    /\ pc' = [pc EXCEPT ![r] = "auth"]
    /\ UNCHANGED <<config, db, seq, clock, conn, calls, raised>>
    /\ UNCHANGED <<schemaVars, runVars, now, pending, result, listed, outcomes, response>>

\* Mutant of Gate: create_rsvp does not depend on require_api_key.
GateListOnly(r) ==
    /\ pc[r] = "auth"
    /\ pc' = [pc EXCEPT ![r] = IF req[r].kind = "submit" \/ require_api_key(api_key[r])
                               THEN "connect" ELSE "denied"]
    /\ response' = [response EXCEPT ![r] = IF req[r].kind = "submit" \/ require_api_key(api_key[r])
                                           THEN @ ELSE "401"]
    /\ api_key' = [api_key EXCEPT ![r] = NoKey]
    /\ UNCHANGED <<config, db, seq, clock, conn, calls, raised>>
    /\ UNCHANGED <<schemaVars, runVars, req, now, pending, result, listed, outcomes>>

\* Mutant of Gate: get_db is declared before require_api_key, so the gate denies
\* a request whose connection is already open (and is then rolled back and closed).
GateAfterGetDb(r) ==
    /\ pc[r] = "auth"
    /\ pc' = [pc EXCEPT ![r] = IF require_api_key(api_key[r]) THEN "connect" ELSE "denied"]
    /\ response' = [response EXCEPT ![r] = IF require_api_key(api_key[r]) THEN @ ELSE "401"]
    /\ conn' = [conn EXCEPT ![r] = IF require_api_key(api_key[r]) THEN @ ELSE "closed"]
    /\ calls' = [calls EXCEPT ![r] = IF require_api_key(api_key[r])
                                     THEN @ ELSE <<"rollback", "close">>]
    /\ api_key' = [api_key EXCEPT ![r] = NoKey]
    /\ UNCHANGED <<config, db, seq, clock, raised>>
    /\ UNCHANGED <<schemaVars, runVars, req, now, pending, result, listed, outcomes>>

\* Depends(require_api_key), the first dependency of list_rsvps and of
\* create_rsvp: get_db is resolved only after it has returned.  Its parameter
\* api_key is gone when it returns or raises.
Gate(r) ==
    /\ pc[r] = "auth"
    /\ pc' = [pc EXCEPT ![r] = IF require_api_key(api_key[r]) THEN "connect" ELSE "denied"]
    /\ response' = [response EXCEPT ![r] = IF require_api_key(api_key[r]) THEN @ ELSE "401"]
    /\ api_key' = [api_key EXCEPT ![r] = NoKey]
    /\ UNCHANGED <<config, db, seq, clock, conn, calls, raised>>
    /\ UNCHANGED <<schemaVars, runVars, req, now, pending, result, listed, outcomes>>

\* body: RsvpCreate is read from the request once the dependencies are resolved.
ReadBody(r) ==
    /\ pc[r] = "body"
    /\ \E b \in inputs : RsvpCreateAccepts(b) /\ req' = [req EXCEPT ![r].body = b]
    /\ pc' = [pc EXCEPT ![r] = "begin"]
    /\ UNCHANGED <<config, db, seq, clock, conn, calls, raised>>
    /\ UNCHANGED <<schemaVars, runVars, api_key, now, pending, result, listed, outcomes, response>>

\* cur.execute opens the transaction first: now() is its start time.
Begin(r) ==
    /\ pc[r] = "begin"
    /\ now' = [now EXCEPT ![r] = clock]
    /\ clock' = clock + 1
    /\ pc' = [pc EXCEPT ![r] = "upsert"]
    /\ UNCHANGED <<config, db, seq, conn, calls, raised>>
    /\ UNCHANGED <<schemaVars, runVars, api_key, req, pending, result, listed, outcomes, response>>

SameKey(row, b) == row["name"] = b.name /\ row["email"] = b.email

\* The INSERT waits while another transaction holds an uncommitted row with
\* the same (name, email).
Blocked(r) ==
    \E q \in Reqs \ {r} : \E w \in pending[q] : SameKey(w.row, req[r].body)

\* ON CONFLICT (name, email) needs a unique constraint over exactly these columns.
HasArbiter(t) == \E k \in t.constraints : ConColumns(k) = {"name", "email"}

\* Mutant of UpsertWrite: a plain INSERT into a table that does not enforce the
\* key, every submit adds a row.
UpsertWritePlainInsert(t, b, id, ts, xid) ==
    [row |-> [id |-> id, name |-> b.name, email |-> b.email, coming |-> b.coming,
              allergies |-> b.allergies, transport_assist |-> b.transport_assist,
              created_at |-> ts],
     xmax |-> 0]

\* Mutant of UpsertWrite: the conflict branch patches coming and allergies and
\* leaves transport_assist as it was.
UpsertWritePartialPatch(t, b, id, ts, xid) ==
    IF \E old \in t.rows : SameKey(old, b)
    THEN LET old == CHOOSE old \in t.rows : SameKey(old, b)
         IN  [row |-> [old EXCEPT !["coming"] = b.coming,
                                  !["allergies"] = b.allergies,
                                  !["created_at"] = ts],
              xmax |-> xid]
    ELSE [row |-> [id |-> id, name |-> b.name, email |-> b.email, coming |-> b.coming,
                   allergies |-> b.allergies, transport_assist |-> b.transport_assist,
                   created_at |-> ts],
          xmax |-> 0]

\* Mutant of UpsertWrite: the conflict branch deletes the old row and inserts a
\* new one, which takes the next id.
UpsertWriteFreshId(t, b, id, ts, xid) ==
    [row |-> [id |-> id, name |-> b.name, email |-> b.email, coming |-> b.coming,
              allergies |-> b.allergies, transport_assist |-> b.transport_assist,
              created_at |-> ts],
     xmax |-> IF \E old \in t.rows : SameKey(old, b) THEN xid ELSE 0]

\* INSERT ... ON CONFLICT (name, email) DO UPDATE SET ... RETURNING xmax: the row
\* written and its xmax, 0 for a fresh row and the updating transaction's id
\* for a row the conflict branch rewrote.
UpsertWrite(t, b, id, ts, xid) ==
    IF \E old \in t.rows : SameKey(old, b)
    THEN LET old == CHOOSE old \in t.rows : SameKey(old, b)
         IN  [row |-> [old EXCEPT !["coming"] = b.coming,
                                  !["allergies"] = b.allergies,
                                  !["transport_assist"] = b.transport_assist,
                                  !["created_at"] = ts],
              xmax |-> xid]
    ELSE [row |-> [id |-> id, name |-> b.name, email |-> b.email, coming |-> b.coming,
                   allergies |-> b.allergies, transport_assist |-> b.transport_assist,
                   created_at |-> ts],
          xmax |-> 0]

\* Mutant of was_inserted: the fallback value is taken for every row.
was_inserted_always(w) == TRUE

\* was_inserted = row[0] if row else True, with row = (xmax = 0,)
was_inserted(w) == w.xmax = 0

\* The return statement of create_rsvp.
SubmitResult(w) ==
    IF was_inserted(w)
    THEN RsvpSubmitResponse("ok", CreatedMessage, FALSE)
    ELSE RsvpSubmitResponse("ok", UpdatedMessage, TRUE)

\* The statement of create_rsvp, its fetchone and the return.  The id default
\* takes the next sequence value before the conflict is detected.
Upsert(r) ==
    /\ pc[r] = "upsert"
    /\ ~Blocked(r)
    /\ seq' = seq + 1
    /\ pc' = [pc EXCEPT ![r] = "exit"]
    /\ IF HasArbiter(db) /\ RSVP_COLUMNS \subseteq db.columns
       THEN LET w == UpsertWrite(db, req[r].body, seq + 1, now[r], r)
            IN  /\ pending' = [pending EXCEPT ![r] = {w}]
                /\ result' = [result EXCEPT ![r] = SubmitResult(w)]
                /\ UNCHANGED <<raised, response>>
       ELSE /\ raised' = [raised EXCEPT ![r] = "body"]
            /\ response' = [response EXCEPT ![r] = "500"]
            /\ UNCHANGED <<pending, result>>
    /\ UNCHANGED <<config, db, clock, conn, calls>>
    /\ UNCHANGED <<schemaVars, runVars, api_key, req, now, listed, outcomes>>

\* SELECT id, name, email, coming, allergies, transport_assist, created_at: one tuple per row.
SelectTuple(row) ==
    <<row["id"], row["name"], row["email"], row["coming"], row["allergies"],
      row["transport_assist"], row["created_at"]>>

\* row_to_rsvp: the tuple's positions under RsvpOut's field names.
row_to_rsvp(row) ==
    [id |-> row[1], name |-> row[2], email |-> row[3], coming |-> row[4],
     allergies |-> row[5], transport_assist |-> row[6], created_at |-> row[7]]

\* Mutant of OrderByCreatedAtDesc: ORDER BY created_at (ascending).
OrderByCreatedAtAsc(rows) ==
    LET n == Cardinality(rows)
    IN  {s \in [1 .. n -> rows] :
            /\ \A i \in 1 .. n : \A j \in 1 .. n : i # j => s[i] # s[j]
            /\ \A i \in 1 .. n : \A j \in 1 .. n :
                  i < j => s[i]["created_at"] <= s[j]["created_at"]}

\* ORDER BY created_at DESC: every order of the rows in which created_at never
\* increases (rows with equal created_at come in any order).
OrderByCreatedAtDesc(rows) ==
    LET n == Cardinality(rows)
    IN  {s \in [1 .. n -> rows] :
            /\ \A i \in 1 .. n : \A j \in 1 .. n : i # j => s[i] # s[j]
            /\ \A i \in 1 .. n : \A j \in 1 .. n :
                  i < j => s[i]["created_at"] >= s[j]["created_at"]}

\* list_rsvps: the SELECT, fetchall and the list of RsvpOut.
Select(r) ==
    /\ pc[r] = "select"
    /\ \E s \in OrderByCreatedAtDesc(db.rows) :
          listed' = [listed EXCEPT ![r] = [i \in 1 .. Len(s) |-> row_to_rsvp(SelectTuple(s[i]))]]
    /\ pc' = [pc EXCEPT ![r] = "exit"]
    /\ UNCHANGED <<config, db, seq, clock, conn, calls, raised>>
    /\ UNCHANGED <<schemaVars, runVars, api_key, req, now, pending, result, outcomes, response>>

\* The statement of a handler raises (the server went away).
HandlerRaises(r) ==
    /\ pc[r] \in {"upsert", "select"}
    /\ pc' = [pc EXCEPT ![r] = "exit"]
    /\ raised' = [raised EXCEPT ![r] = "body"]
    /\ response' = [response EXCEPT ![r] = "500"]
    /\ UNCHANGED <<config, db, seq, clock, conn, calls>>
    /\ UNCHANGED <<schemaVars, runVars, api_key, req, now, pending, result, listed, outcomes>>

\* RsvpCreate rejects the body: RequestValidationError (422) is raised once the
\* dependencies are resolved, so through get_db, whose connection is open.
BodyInvalid(r) ==
    /\ pc[r] = "body"
    /\ \E b \in inputs : ~RsvpCreateAccepts(b) /\ req' = [req EXCEPT ![r].body = b]
    /\ pc' = [pc EXCEPT ![r] = "exit"]
    /\ raised' = [raised EXCEPT ![r] = "body"]
    /\ response' = [response EXCEPT ![r] = "422"]
    /\ UNCHANGED <<config, db, seq, clock, conn, calls>>
    /\ UNCHANGED <<schemaVars, runVars, api_key, now, pending, result, listed, outcomes>>

\* The handler has returned and the installed FastAPI sends the response before
\* it runs the exit code of get_db.
Respond(r) ==
    /\ pc[r] = "exit"
    /\ fastapi = "exit_after_response"
    /\ raised[r] = "no"
    /\ response[r] = "none"
    /\ response' = [response EXCEPT ![r] = SuccessStatus(r)]
    /\ UNCHANGED <<config, db, seq, clock, pc, conn, calls, raised>>
    /\ UNCHANGED <<schemaVars, runVars, api_key, req, now, pending, result, listed, outcomes>>

\* GET /health: no dependency, no connection, a constant answer.
health(r) ==
    /\ pc[Startup] = "done"
    /\ pc[r] = "idle"
    /\ \A q \in Reqs : q < r => pc[q] # "idle"
    /\ req' = [req EXCEPT ![r].kind = "health"]
    /\ pc' = [pc EXCEPT ![r] = "done"]
    /\ response' = [response EXCEPT ![r] = "200"]
    /\ UNCHANGED <<config, db, seq, clock, conn, calls, raised>>
    /\ UNCHANGED <<schemaVars, runVars, api_key, now, pending, result, listed, outcomes>>

Request(r) ==
    \/ Arrive(r)
    \/ Gate(r)
    \/ Connect(r)
    \/ ConnectFails(r)
    \/ ReadBody(r)
    \/ Begin(r)
    \/ Upsert(r)
    \/ Select(r)
    \/ HandlerRaises(r)
    \/ ExitScope(r)
    \/ CommitFails(r)

\* The tables the service is started on: none, the earlier revision's table
\* (attending, message, UNIQUE (email)) with rows, and the same table without
\* any uniqueness constraint, holding a duplicate (name, email).
ServicePriors ==
    { NoTable,
      LegacyTable(BaseColumns \cup {"attending", "message"}, {PKEY, EMAIL_KEY},
                  {Seed(1, "Ann", "ann@x.com", TRUE), Seed(2, "Ann", "bob@x.com", FALSE)}),
      LegacyTable(BaseColumns \cup {"attending", "message"}, {PKEY},
                  {Seed(1, "Ann", "ann@x.com", FALSE), Seed(2, "Ann", "ann@x.com", TRUE)}) }

Init == InitWith(ServicePriors, Secrets, Bodies, {"exit_before_response"})
Next == ensure_rsvps_table \/ \E r \in Reqs : Request(r)
Spec == Init /\ [][Next]_vars

\* The row a plain INSERT of body b adds.
InsertedRow(b, id, ts) ==
    [id |-> id, name |-> b.name, email |-> b.email, coming |-> b.coming,
     allergies |-> b.allergies, transport_assist |-> b.transport_assist, created_at |-> ts]

\* A row of t collides with row on the columns of a uniqueness constraint of t.
ViolatesUnique(t, row) ==
    \E k \in t.constraints : \E old \in t.rows :
        \A c \in ConColumns(k) : old[c] = row[c]

\* Mutant of PlainInsert: the duplicate is not translated and surfaces as an
\* unhandled error.
PlainInsertUntranslated(r) ==
    /\ pc[r] = "upsert"
    /\ ~Blocked(r)
    /\ seq' = seq + 1
    /\ pc' = [pc EXCEPT ![r] = "exit"]
    /\ LET row == InsertedRow(req[r].body, seq + 1, now[r])
       IN  IF ViolatesUnique(db, row)
           THEN /\ raised' = [raised EXCEPT ![r] = "body"]
                /\ response' = [response EXCEPT ![r] = "500"]
                /\ UNCHANGED <<pending, result>>
           ELSE /\ pending' = [pending EXCEPT ![r] = {[row |-> row, xmax |-> 0]}]
                /\ result' = [result EXCEPT ![r] = RsvpSubmitResponse("ok", CreatedMessage, FALSE)]
                /\ UNCHANGED <<raised, response>>
    /\ UNCHANGED <<config, db, clock, conn, calls>>
    /\ UNCHANGED <<schemaVars, runVars, api_key, req, now, listed, outcomes>>

\* The write of the earlier revision of create_rsvp (sections 4.2 and 7 of the
\* specification): a plain INSERT; a uniqueness violation is signalled as a
\* duplicate, which the handler translates into a conflict (409).
PlainInsert(r) ==
    /\ pc[r] = "upsert"
    /\ ~Blocked(r)
    /\ seq' = seq + 1
    /\ pc' = [pc EXCEPT ![r] = "exit"]
    /\ LET row == InsertedRow(req[r].body, seq + 1, now[r])
       IN  IF ViolatesUnique(db, row)
           THEN /\ raised' = [raised EXCEPT ![r] = "body"]
                /\ response' = [response EXCEPT ![r] = "409"]
                /\ UNCHANGED <<pending, result>>
           ELSE /\ pending' = [pending EXCEPT ![r] = {[row |-> row, xmax |-> 0]}]
                /\ result' = [result EXCEPT ![r] = RsvpSubmitResponse("ok", CreatedMessage, FALSE)]
                /\ UNCHANGED <<raised, response>>
    /\ UNCHANGED <<config, db, clock, conn, calls>>
    /\ UNCHANGED <<schemaVars, runVars, api_key, req, now, listed, outcomes>>

\* The service with the earlier revision's write in place of the upsert.
RequestEarlier(r) ==
    \/ Arrive(r)
    \/ Gate(r)
    \/ Connect(r)
    \/ ConnectFails(r)
    \/ ReadBody(r)
    \/ Begin(r)
    \/ PlainInsert(r)
    \/ Select(r)
    \/ HandlerRaises(r)
    \/ ExitScope(r)
    \/ CommitFails(r)

InitEarlier == InitWith({NoTable}, {NoKey}, Bodies, {"exit_before_response"})
NextEarlier == ensure_rsvps_table \/ \E r \in Reqs : RequestEarlier(r)
SpecEarlier == InitEarlier /\ [][NextEarlier]_vars

\* The service with every route and every input, under either FastAPI: the
\* health probe, bodies RsvpCreate rejects, names with surrounding whitespace.
RequestHttp(r) ==
    \/ Request(r)
    \/ BodyInvalid(r)
    \/ Respond(r)
    \/ health(r)

InitHttp == InitWith({NoTable}, {NoKey, "s3cret"}, RawBodies, Builds)
NextHttp == ensure_rsvps_table \/ \E r \in Reqs : RequestHttp(r)
SpecHttp == InitHttp /\ [][NextHttp]_vars

\* ================================================================== claims
Final == {"done", "failed", "denied"}

HasCall(o, c) == \E i \in 1 .. Len(calls[o]) : calls[o][i] = c

RowsOf(t, k) == {row \in t.rows : row["name"] = k[1] /\ row["email"] = k[2]}

\* The shape section 4.1 names: the seven columns, uniqueness on (name, email),
\* none on email alone.
TargetShape(t) ==
    /\ t.exists
    /\ t.columns = RSVP_COLUMNS
    /\ \E k \in t.constraints : ConColumns(k) = {"name", "email"}
    /\ ~\E k \in t.constraints : ConColumns(k) = {"email"}

\* C1: once ensure_rsvps_table has completed, no two distinct stored rows share
\* (name, email), whatever submits and lists have run or are running.
C1_KeyUnique ==
    pc[Startup] = "done" => ~HasDuplicate(db, {"name", "email"})

\* C1 witness: rows for all three keys are stored and a submit has replaced one.
C1_Witness ==
    /\ pc[Startup] = "done"
    /\ \A k \in Keys : RowsOf(db, k) # {}
    /\ \E k \in Keys : Len(outcomes[k]) >= 2

Creates(k) == {i \in 1 .. Len(outcomes[k]) : outcomes[k][i] = CreatedMessage}
Replaces(k) == {i \in 1 .. Len(outcomes[k]) : outcomes[k][i] = UpdatedMessage}

\* C2: for a (name, email) that had no row when the service started, among the
\* submits on it that committed (in every interleaving) exactly one reported
\* created and every other one reported replaced.
C2_OneCreate ==
    \A k \in Keys :
        (RowsOf(db0, k) = {} /\ outcomes[k] # <<>>) =>
            /\ Cardinality(Creates(k)) = 1
            /\ Cardinality(Replaces(k)) = Len(outcomes[k]) - 1

\* C2 witness: three overlapping submits on one new key: two have committed
\* (created, replaced) and the one whose transaction began first of all has
\* just taken the conflict branch.
C2_Witness ==
    \E k \in Keys : \E r \in Reqs :
        /\ RowsOf(db0, k) = {}
        /\ outcomes[k] = <<CreatedMessage, UpdatedMessage>>
        /\ pc[r] = "exit" /\ req[r].kind = "submit" /\ KeyOf(req[r].body) = k
        /\ now[r] = 1
        /\ result[r].message = UpdatedMessage

\* C3: a submit returns created iff no row with its (name, email) was stored
\* when its statement ran and replaced otherwise; when it commits exactly one
\* row has its key, that row carries the submit's coming, allergies and
\* transport_assist, and the rows of every other key are as they were (a new
\* key adds one row).
C3_UpsertDeterminism ==
    [][\A r \in Reqs :
          /\ (pc[r] = "upsert" /\ pc'[r] = "exit" /\ raised'[r] = "no") =>
                LET existed == RowsOf(db, KeyOf(req[r].body)) # {}
                IN  /\ (result'[r].message = CreatedMessage) <=> ~existed
                    /\ (result'[r].message = UpdatedMessage) <=> existed
          /\ (pc[r] = "exit" /\ pc'[r] = "done" /\ req[r].kind = "submit") =>
                LET b == req[r].body
                    k == KeyOf(b)
                IN  /\ Cardinality(RowsOf(db', k)) = 1
                    /\ \A row \in RowsOf(db', k) :
                          /\ row["coming"] = b.coming
                          /\ row["allergies"] = b.allergies
                          /\ row["transport_assist"] = b.transport_assist
                    /\ db'.rows \ RowsOf(db', k) = db.rows \ RowsOf(db, k)
                    /\ Cardinality(db'.rows) = Cardinality(db.rows)
                          + (IF result[r].message = CreatedMessage THEN 1 ELSE 0)
      ]_vars

\* C3 witness: the scenario of section 8 on a fresh table: Ann/ann@x.com
\* created, then replaced with coming = false and allergies = nuts, then
\* Ann/bob@x.com created: two rows.
C3_Witness ==
    /\ db0 = NoTable
    /\ outcomes[<<"Ann", "ann@x.com">>] = <<CreatedMessage, UpdatedMessage>>
    /\ outcomes[<<"Ann", "bob@x.com">>] = <<CreatedMessage>>
    /\ Cardinality(db.rows) = 2
    /\ \A row \in RowsOf(db, <<"Ann", "ann@x.com">>) :
          row["coming"] = FALSE /\ row["allergies"] = "nuts"

\* What "a secret is configured" means to require_api_key: API_KEY is set and
\* not empty.
Configured == API_KEY # NoKey /\ API_KEY # ""

\* C4 as stated: a submit is admitted whatever key is presented.
C4_SubmitNeverGated ==
    \A r \in Reqs : req[r].kind = "submit" => pc[r] # "denied"

\* C4 amended: create_rsvp depends on require_api_key like list_rsvps: with no
\* secret configured a submit is admitted for every key, with a secret
\* configured it is admitted iff the presented key equals the secret.
C4_SubmitGated ==
    [][\A r \in Reqs :
          (pc[r] = "auth" /\ req[r].kind = "submit" /\ pc'[r] # "auth") =>
              /\ pc'[r] \in {"connect", "denied"}
              /\ (pc'[r] = "connect") <=> (~Configured \/ api_key[r] = API_KEY)
      ]_vars

\* C4 witness: a submit was denied.
C4_Witness ==
    \E r \in Reqs : req[r].kind = "submit" /\ pc[r] = "denied" /\ Configured

\* C5: with no secret configured list is allowed for every presented key; with
\* one configured it is allowed iff the presented key equals it exactly, and
\* denied otherwise (an absent, an empty or a different key).
C5_ListGate ==
    [][\A r \in Reqs :
          (pc[r] = "auth" /\ req[r].kind = "list" /\ pc'[r] # "auth") =>
              /\ pc'[r] \in {"connect", "denied"}
              /\ ~Configured => pc'[r] = "connect"
              /\ Configured => ((pc'[r] = "connect") <=> (api_key[r] = API_KEY))
              /\ (Configured /\ api_key[r] \in {NoKey, "", "S3CRET"}) => pc'[r] = "denied"
      ]_vars

\* C5 witness: with a secret configured one list was denied and another one,
\* admitted, has read the table.
C5_Witness ==
    /\ Configured
    /\ \E r \in Reqs : req[r].kind = "list" /\ pc[r] = "denied"
    /\ \E r \in Reqs : req[r].kind = "list" /\ pc[r] = "exit" /\ raised[r] = "no"

\* C6: from every listed prior state, once ensure_rsvps_table has completed the
\* table has exactly the seven columns, the (name, email) uniqueness
\* constraint and no email-only one.
C6_ReachesTarget ==
    (pc[Startup] = "done" /\ ListedPrior(db0)) => TargetShape(db)

\* C6 witness: the run completed on a table that had attending, message, an
\* email-only constraint, rows, and neither new column.
C6_Witness ==
    /\ pc[Startup] = "done"
    /\ run = 1
    /\ db0.exists /\ db0.rows # {}
    /\ {"attending", "message"} \subseteq db0.columns
    /\ db0.columns \cap {"coming", "allergies", "transport_assist"} = {}
    /\ EMAIL_KEY \in db0.constraints /\ NAME_EMAIL_KEY \notin db0.constraints
    /\ TargetShape(db)

\* C7 as stated: after a completed first run, a completed second run leaves
\* the columns and constraints as they were and has issued no DDL statement.
C7_SecondRunNoDDL ==
    (run = 2 /\ first = "done" /\ pc[Startup] = "done") =>
        /\ db.columns = db1.columns
        /\ db.constraints = db1.constraints
        /\ ddl = <<>>

\* C7 amended: after a completed first run, a completed second run leaves the
\* table as it was and the only DDL statement it has issued is the
\* unconditional CREATE TABLE IF NOT EXISTS, which the server skips.
C7_SecondRunOnlyCreate ==
    (run = 2 /\ first = "done" /\ pc[Startup] = "done") =>
        /\ db.columns = db1.columns
        /\ db.constraints = db1.constraints
        /\ db = db1
        /\ ddl = <<"CREATE TABLE IF NOT EXISTS">>

\* C7 witness: a second run has completed after a completed first one, on a
\* table that holds rows.
C7_Witness ==
    /\ run = 2 /\ first = "done" /\ pc[Startup] = "done"
    /\ db.rows # {}
    /\ Len(ddl) = 1

\* The legacy table of the migration scenario: attending, no coming, no
\* allergies, no transport_assist.
LegacyScenario(t) ==
    /\ t.exists
    /\ BaseColumns \cup {"attending"} \subseteq t.columns
    /\ t.columns \cap {"coming", "allergies", "transport_assist"} = {}

\* C8: from the legacy table, once ensure_rsvps_table has completed every
\* former row is stored with its id, name, email and created_at, coming equal
\* to its attending, allergies NULL and transport_assist false, there is no
\* other row, and uniqueness is on (name, email) only.
C8_NoDataLoss ==
    (pc[Startup] = "done" /\ LegacyScenario(db0)) =>
        /\ \A old \in db0.rows : \E row \in db.rows :
              /\ \A c \in BaseColumns : row[c] = old[c]
              /\ row["coming"] = old["attending"]
              /\ row["allergies"] = NULL
              /\ row["transport_assist"] = FALSE
        /\ Cardinality(db.rows) = Cardinality(db0.rows)
        /\ \E k \in db.constraints : ConColumns(k) = {"name", "email"}
        /\ ~\E k \in db.constraints : ConColumns(k) = {"email"}

\* C8 witness: the run completed on a legacy table with two rows, one attending
\* and one not.
C8_Witness ==
    /\ pc[Startup] = "done"
    /\ LegacyScenario(db0)
    /\ \E r1 \in db0.rows : \E r2 \in db0.rows : r1["attending"] /\ ~r2["attending"]
    /\ "coming" \in db.columns

\* C9: an operation that ran inside get_conn has its connection closed, by a
\* close that is the last call; commit was called iff its body did not raise,
\* rollback was called (before close, after the commit that raised) iff the
\* body or the commit raised, and it ended normally iff nothing raised.  No
\* operation that is over holds an open connection.
C9_Scope ==
    \A o \in Ops :
        /\ (pc[o] \in Final \cup {"idle", "auth", "connect"}) => conn[o] # "open"
        /\ (pc[o] \in {"done", "failed"} /\ conn[o] # "none") =>
              /\ conn[o] = "closed"
              /\ calls[o] # <<>> /\ calls[o][Len(calls[o])] = "close"
              /\ HasCall(o, "commit") <=> raised[o] # "body"
              /\ HasCall(o, "rollback") <=> raised[o] # "no"
              /\ raised[o] = "no" => calls[o] = <<"commit", "close">>
              /\ raised[o] = "body" => calls[o] = <<"rollback", "close">>
              /\ raised[o] = "commit" => calls[o] = <<"commit", "rollback", "close">>
              /\ (pc[o] = "done") <=> (raised[o] = "no")

\* C9 witness: a request whose commit raised, the startup run having committed.
C9_Witness ==
    /\ calls[Startup] = <<"commit", "close">>
    /\ \E r \in Reqs : pc[r] = "failed" /\ raised[r] = "commit" /\ conn[r] = "closed"
    /\ \E r \in Reqs : pc[r] = "failed" /\ raised[r] = "body" /\ conn[r] = "closed"

\* C10: the stored table changes only in the step that commits an operation
\* whose body did not raise; an operation that fails leaves the stored table as
\* it was and keeps no uncommitted write, and a failed reconciliation leaves the
\* table exactly as it found it.
C10_NoPartialWrites ==
    [][/\ \A o \in Ops :
             (pc[o] # "failed" /\ pc'[o] = "failed") =>
                 /\ db' = db
                 /\ o \in Reqs => pending'[o] = {}
       /\ db' # db => \E o \in Ops : pc[o] = "exit" /\ raised[o] = "no" /\ pc'[o] = "done"
       /\ pc'[Startup] = "failed" => db' = db0
      ]_vars

\* C10 witness: the reconciliation failed on its last ALTER after five DDL
\* statements of the same transaction, and the table is as it was.
C10_Witness ==
    /\ pc[Startup] = "failed"
    /\ raised[Startup] = "body"
    /\ Len(ddl) = 6
    /\ ddl[6] = "ALTER TABLE ADD CONSTRAINT rsvps_name_email_key"
    /\ db = db0
    /\ "attending" \in db.columns

CreateStatements == {i \in 1 .. Len(ddl) : ddl[i] = "CREATE TABLE IF NOT EXISTS"}

\* C11: no request is accepted, and none has touched the database, unless
\* ensure_rsvps_table has run (once) and its transaction is committed: the
\* table then has the target shape.  After a reconciliation that failed, and
\* while it runs, every request is still unserved.
C11_StartupOrdering ==
    /\ (\E r \in Reqs : pc[r] # "idle") =>
          /\ pc[Startup] = "done"
          /\ calls[Startup] = <<"commit", "close">>
          /\ run = 1 /\ Cardinality(CreateStatements) = 1
          /\ TargetShape(db)
    /\ pc[Startup] # "done" =>
          /\ \A r \in Reqs : pc[r] = "idle" /\ conn[r] = "none" /\ pending[r] = {}
          /\ \A k \in Keys : outcomes[k] = <<>>

\* C11 witness: on a legacy table the reconciliation has committed and then a
\* submit and a list were served.
C11_Witness ==
    /\ pc[Startup] = "done" /\ db0.exists /\ "attending" \in db0.columns
    /\ \E k \in Keys : outcomes[k] # <<>>
    /\ \E r \in Reqs : req[r].kind = "list" /\ pc[r] = "done"

\* C12: the sequence a list returns holds every stored row exactly once and
\* nothing else, and created_at never increases along it.
C12_ListOrdering ==
    [][\A r \in Reqs :
          (pc[r] = "select" /\ pc'[r] = "exit" /\ raised'[r] = "no") =>
              LET out == listed'[r]
                  Same(o, row) == /\ o.id = row["id"] /\ o.name = row["name"]
                                  /\ o.email = row["email"] /\ o.coming = row["coming"]
                                  /\ o.allergies = row["allergies"]
                                  /\ o.transport_assist = row["transport_assist"]
                                  /\ o.created_at = row["created_at"]
              IN  /\ Len(out) = Cardinality(db.rows)
                  /\ \A row \in db.rows :
                        Cardinality({i \in 1 .. Len(out) : Same(out[i], row)}) = 1
                  /\ \A i \in 1 .. Len(out) : \E row \in db.rows : Same(out[i], row)
                  /\ \A i \in 1 .. Len(out) : \A j \in 1 .. Len(out) :
                        i < j => out[i].created_at >= out[j].created_at
      ]_vars

\* C12 witness: a list has returned two records, the first one a record that
\* was resubmitted after the other was stored.
C12_Witness ==
    \E r \in Reqs :
        /\ req[r].kind = "list" /\ pc[r] = "exit" /\ raised[r] = "no"
        /\ Len(listed[r]) = 2
        /\ listed[r][1].created_at > listed[r][2].created_at
        /\ UpdatedMessage \in
              {outcomes[<<listed[r][1].name, listed[r][1].email>>][i] :
                  i \in 1 .. Len(outcomes[<<listed[r][1].name, listed[r][1].email>>])}

\* C13: no step removes a stored row or changes its id, name or email (so the
\* stored keys only grow); a submit that commits on a key that is stored leaves
\* one row for it, with the id it had, and every other row as it was.
C13_ReplaceInPlace ==
    [][/\ \A row \in db.rows : \E new \in db'.rows :
             /\ new["id"] = row["id"]
             /\ new["name"] = row["name"]
             /\ new["email"] = row["email"]
       /\ \A r \in Reqs :
             (pc[r] = "exit" /\ pc'[r] = "done" /\ req[r].kind = "submit"
                  /\ RowsOf(db, KeyOf(req[r].body)) # {}) =>
                 LET k == KeyOf(req[r].body)
                 IN  /\ Cardinality(RowsOf(db', k)) = 1
                     /\ {row["id"] : row \in RowsOf(db', k)} = {row["id"] : row \in RowsOf(db, k)}
                     /\ db'.rows \ RowsOf(db', k) = db.rows \ RowsOf(db, k)
      ]_vars

\* C13 witness: a row of the legacy table, carried over by the reconciliation,
\* was replaced by a submit and a row for a new key was added next to it.
C13_Witness ==
    /\ db0.rows # {}
    /\ \E k \in Keys :
          /\ RowsOf(db0, k) # {}
          /\ outcomes[k] = <<UpdatedMessage>>
          /\ {row["id"] : row \in RowsOf(db, k)} = {row["id"] : row \in RowsOf(db0, k)}
    /\ \E k \in Keys : RowsOf(db0, k) = {} /\ RowsOf(db, k) # {}
    /\ Cardinality(db.rows) = Cardinality(db0.rows) + 1

\* C16 as stated: no step moves the created_at of a stored row backwards.
C16_CreatedAtMonotone ==
    [][\A old \in db.rows : \A new \in db'.rows :
          (db.exists /\ "created_at" \in db.columns /\ new["id"] = old["id"]) =>
              new["created_at"] >= old["created_at"]
      ]_vars

\* Leading and trailing spaces removed: the trimming section 4.2 names.
RECURSIVE StripLeft(_)
StripLeft(cs) == IF cs # <<>> /\ Head(cs) = " " THEN StripLeft(Tail(cs)) ELSE cs

RECURSIVE StripRight(_)
StripRight(cs) ==
    IF cs # <<>> /\ cs[Len(cs)] = " " THEN StripRight(SubSeq(cs, 1, Len(cs) - 1)) ELSE cs

Strip(cs) == StripRight(StripLeft(cs))

C15_TrimmedName ==
    /\ \A row \in db.rows : Strip(Chars(row["name"])) = Chars(row["name"])
    /\ \A r1 \in db.rows : \A r2 \in db.rows :
          (Strip(Chars(r1["name"])) = Strip(Chars(r2["name"])) /\ r1["email"] = r2["email"])
              => r1 = r2
    /\ \A r \in Reqs :
          (req[r].kind = "submit" /\ pc[r] \in {"begin", "upsert"}) =>
              Strip(Chars(req[r].body.name)) # <<>>

\* C17 as stated: a submit whose caller has the success response is committed.
C17_SuccessIsCommitted ==
    \A r \in Reqs :
        (req[r].kind = "submit" /\ response[r] = "201") =>
            /\ pc[r] = "done"
            /\ pending[r] = {}
            /\ raised[r] = "no"

\* C18: a request the gate denied, and a health probe, has acquired no
\* connection, run no statement and read nothing, and the step that denied or
\* answered it left the stored table, the id sequence and the clock as they were.
C18_DeniedTouchesNothing ==
    [][\A r \in Reqs :
          (pc'[r] = "denied" \/ req'[r].kind = "health") =>
              /\ conn'[r] = "none"
              /\ calls'[r] = <<>>
              /\ pending'[r] = {}
              /\ listed'[r] = <<>>
              /\ now'[r] = 0
              /\ pc[r] # pc'[r] => (db' = db /\ seq' = seq /\ clock' = clock)
      ]_vars

\* C18 witness: with a secret configured and a record stored, one request was
\* denied and a health probe was answered.
C18_Witness ==
    /\ Configured
    /\ db.rows # {}
    /\ \E r \in Reqs : pc[r] = "denied" /\ response[r] = "401" /\ conn[r] = "none"
    /\ \E r \in Reqs : req[r].kind = "health" /\ response[r] = "200" /\ conn[r] = "none"

====
